---- MODULE Spec2Model ----
(***************************************************************************)
(* Model of jsb::internal::Process (src/internal/jsb_process.cpp): a child *)
(* process supervisor with a pump thread that reads the child's output     *)
(* from a pipe, strips escape sequences, splits it into lines and logs     *)
(* them.  Both the Windows and the POSIX ProcessImpl are modelled; the     *)
(* variable `platform' selects which one a behaviour runs.                 *)
(*                                                                         *)
(* Threads and processes of one behaviour:                                 *)
(*   - the caller thread: create(), is_running(), stop();                  *)
(*   - the pump thread: ProcessImpl::_thread_run;                          *)
(*   - the child process: writes bytes to the pipe and exits;              *)
(*   - the OS: delivers a kill, interrupts a read, feeds descriptor 0.     *)
(* Every step that touches state shared between the two threads            *)
(* (is_closing, the member holding the pipe read end, the descriptors, the *)
(* child) is an action of its own, so that every interleaving the code     *)
(* allows is a behaviour of the model.                                     *)
(*                                                                         *)
(* Three specifications share the variables and the actions:               *)
(*   - Spec / SpecFair: the lifecycle, from construction on;               *)
(*   - SpecFilter: the pump reading a pipe that holds text and escape      *)
(*     sequences, in chunks of any sizes;                                  *)
(*   - SpecQuote: create() on Windows for a range of paths and arguments.  *)
(***************************************************************************)
EXTENDS Integers, Sequences, FiniteSets

\* ------------------------------------------------------------------ bounds

\* The child writes at most MaxOut bytes in a behaviour.
MaxOut == 3

\* The caller calls stop() at most MaxStops times in a behaviour.
MaxStops == 2

\* In the filter specification the text before and the text after the escape
\* sequence have at most MaxText bytes each.
MaxText == 1

\* In the command-line specification create() is given at most MaxArgs
\* arguments.
MaxArgs == 2

\* ------------------------------------------------------- program constants

LF == 10
CR == 13
ESC == 27
BEL == 7
NUL == 0
LBRACKET == 91
RBRACKET == 93
BACKSLASH == 92
DQUOTE == 34
SLASH == 47
SPACE == 32
CSI_FINAL_MIN == 64
CSI_FINAL_MAX == 126
\* sizeof(buffer): the most one read returns.
CHUNK == 4096
\* GetExitCodeProcess reports STILL_ACTIVE (259) for a process that runs.
STILL_ACTIVE == 259
\* TerminateProcess(pi.pi.hProcess, 0): the exit code of a terminated child.
TERMINATE_CODE == 0

\* The bytes the child writes in the lifecycle specification: an ordinary
\* text byte ('a') and the two line terminators.
Bytes == {97, LF, CR}

\* The exit codes a child is taken to exit with of its own accord.
ExitCodes == {0, STILL_ACTIVE}

Platforms == {"win", "posix"}

\* ------------------------------------------------------------ line filter

Min(a, b) == IF a < b THEN a ELSE b

\* A log entry: its kind and, for a captured line, its text.
Entry(kind, text) == [k |-> kind, t |-> text]

\* The C string at rd_line.ptr(): the bytes before the first NUL.
RECURSIVE CStr(_)
CStr(line) ==
    IF line = <<>> \/ Head(line) = NUL
    THEN <<>>
    ELSE <<Head(line)>> \o CStr(Tail(line))

\* Is `text' well-formed UTF-8 (sequences of one to four bytes)?  This is
\* when String::append_utf8 / parse_utf8 returns OK.
IsCont(text, i) == i <= Len(text) /\ text[i] >= 128 /\ text[i] <= 191
RECURSIVE Utf8Ok(_, _)
Utf8Ok(text, i) ==
    IF i > Len(text) THEN TRUE
    ELSE IF text[i] < 128 THEN Utf8Ok(text, i + 1)
    ELSE IF text[i] >= 194 /\ text[i] <= 223
         THEN IsCont(text, i + 1) /\ Utf8Ok(text, i + 2)
    ELSE IF text[i] >= 224 /\ text[i] <= 239
         THEN IsCont(text, i + 1) /\ IsCont(text, i + 2) /\ Utf8Ok(text, i + 3)
    ELSE IF text[i] >= 240 /\ text[i] <= 244
         THEN /\ IsCont(text, i + 1) /\ IsCont(text, i + 2) /\ IsCont(text, i + 3)
              /\ Utf8Ok(text, i + 4)
    ELSE FALSE

\* ProcessImpl::_flush (POSIX): what is logged for rd_line (the caller of this
\* operator clears rd_line).  The C string at rd_line.ptr() is decoded and,
\* if the decoding returned OK, logged, whatever its length.
flush_posix(line) ==
    IF line = <<>> THEN <<>>
    ELSE IF Utf8Ok(CStr(line), 1) THEN <<Entry("line", CStr(line))>>
    ELSE <<>>

\* ProcessImpl::_flush (Windows): rd_line is converted up to its terminating
\* NUL, from the ANSI code page or, if that fails, as UTF-8, and logged
\* if (!output.is_empty()).  A logged line is represented by its bytes.
flush_win(line) ==
    IF line = <<>> THEN <<>>
    ELSE IF CStr(line) # <<>> THEN <<Entry("line", CStr(line))>>
    ELSE <<>>

Flush(plat, line) == IF plat = "posix" THEN flush_posix(line) ELSE flush_win(line)

\* CSI: the index at which the scan loop stops, from index i on: that of the
\* first byte in 0x40..0x7E, or Len(buf)+1.
RECURSIVE CsiScan(_, _)
CsiScan(buf, i) ==
    IF i > Len(buf) THEN i
    ELSE IF buf[i] >= CSI_FINAL_MIN /\ buf[i] <= CSI_FINAL_MAX THEN i
    ELSE CsiScan(buf, i + 1)

\* OSC: the index at which the scan loop stops: that of BEL, or of the '\' of
\* ESC '\', or Len(buf)+1.
RECURSIVE OscScan(_, _)
OscScan(buf, i) ==
    IF i > Len(buf) THEN i
    ELSE IF buf[i] = BEL THEN i
    ELSE IF buf[i] = ESC /\ i + 1 <= Len(buf) /\ buf[i + 1] = BACKSLASH THEN i + 1
    ELSE OscScan(buf, i + 1)

\* The index the for loop is at when it meets `continue' for an ESC at i.
EscSkip(buf, i) ==
    IF i + 1 <= Len(buf)
    THEN IF buf[i + 1] = LBRACKET THEN CsiScan(buf, i + 2)
         ELSE IF buf[i + 1] = RBRACKET THEN OscScan(buf, i + 2)
         ELSE i + 1
    ELSE i

\* The for loop over one chunk, from index i, with rd_line = line and the
\* entries logged so far = out.  The result is <<rd_line, entries>>.
RECURSIVE Consume(_, _, _, _, _)
Consume(plat, buf, i, line, out) ==
    IF i > Len(buf) THEN <<line, out>>
    ELSE IF buf[i] = ESC
         THEN Consume(plat, buf, EscSkip(buf, i) + 1, line, out)
    ELSE IF buf[i] = LF \/ buf[i] = CR
         THEN Consume(plat, buf, i + 1, <<>>,
                      out \o Flush(plat, Append(line, NUL)))
    ELSE Consume(plat, buf, i + 1, Append(line, buf[i]), out)

ProcessChunk(plat, buf, line) == Consume(plat, buf, 1, line, <<>>)

\* ------------------------------------------------------- inputs of the filter

\* The bytes of plain text given to the filter: 'a', a line terminator
\* and a byte that is no UTF-8 (0xFF).
TextBytes == {97, LF, 255}

\* The byte strings over S of length at most n.
RECURSIVE SeqsUpTo(_, _)
SeqsUpTo(S, n) ==
    IF n = 0 THEN {<<>>}
    ELSE LET shorter == SeqsUpTo(S, n - 1) IN
         shorter \cup {Append(t, b) : t \in shorter, b \in S}

FilterText == SeqsUpTo(TextBytes, MaxText)

\* Well-formed CSI sequences: ESC '[', bytes outside 0x40..0x7E ('1', ';',
\* '?', a line feed), a final byte in 0x40..0x7E ('@', 'm', '~').
CsiSeqs ==
    {<<ESC, LBRACKET>> \o params \o <<final>> :
        params \in {<<>>, <<49>>, <<63>>, <<LF>>, <<49, 59>>},
        final \in {CSI_FINAL_MIN, 109, CSI_FINAL_MAX}}

\* Well-formed OSC sequences: ESC ']', a payload, BEL or ESC '\'.
OscSeqs ==
    {<<ESC, RBRACKET>> \o payload \o term :
        payload \in {<<>>, <<97>>, <<LF>>, <<ESC>>, <<ESC, 97>>},
        term \in {<<BEL>>, <<ESC, BACKSLASH>>}}

\* What the pump is given in the filter specification: text, then one escape
\* sequence (or a lone ESC, a two-byte escape, more text), then text.
FilterInputs ==
    {pre \o mid \o post :
        pre \in FilterText,
        mid \in CsiSeqs \cup OscSeqs \cup {<<ESC>>, <<ESC, 97>>} \cup FilterText,
        post \in FilterText}

\* ----------------------------------------------------- command line (Windows)

\* A string is a sequence of character codes.

\* _quote_command_line_argument without the test for '~'.
QuoteChars_no_tilde == {32, 38, 40, 41, 91, 93, 123, 125, 94, 61, 59, 33, 39, 43, 44, 96}

\* The characters _quote_command_line_argument looks for:
\* space & ( ) [ ] { } ^ = ; ! ' + , ` ~
QuoteChars == {32, 38, 40, 41, 91, 93, 123, 125, 94, 61, 59, 33, 39, 43, 44, 96, 126}

\* The loop of _quote_command_line_argument from index i on: does it reach
\* a character that makes it return the quoted text?
RECURSIVE FindsQuoteChar(_, _)
FindsQuoteChar(p_text, i) ==
    IF i > Len(p_text) THEN FALSE
    ELSE IF p_text[i] \in QuoteChars THEN TRUE
    ELSE FindsQuoteChar(p_text, i + 1)

\* ProcessImpl::_quote_command_line_argument.
_quote_command_line_argument(p_text) ==
    IF FindsQuoteChar(p_text, 1)
    THEN <<DQUOTE>> \o p_text \o <<DQUOTE>>
    ELSE p_text

\* p_path.replace("/", "\\").
ReplaceSlashes(path) ==
    [i \in DOMAIN path |-> IF path[i] = SLASH THEN BACKSLASH ELSE path[i]]

\* for (const String& E : p_arguments) command += " " + quote(E);
RECURSIVE AppendArguments(_, _)
AppendArguments(cmd, args) ==
    IF args = <<>> THEN cmd
    ELSE AppendArguments(cmd \o <<SPACE>> \o _quote_command_line_argument(Head(args)),
                         Tail(args))

\* The command line on_start hands to CreateProcessW.
CommandLine(path, args) ==
    AppendArguments(_quote_command_line_argument(ReplaceSlashes(path)), args)

\* The executable paths given to create() in the command-line specification:
\* a, a/b, a b, a b/c.
PathInputs == {<<97>>, <<97, SLASH, 98>>, <<97, SPACE, 98>>, <<97, SPACE, 98, SLASH, 99>>}

\* The characters of the arguments: space & ( ) [ ] { } ^ = ; ! ' + , ` ~ and
\* a " % - / < > \ |
ArgChars == {32, 38, 40, 41, 91, 93, 123, 125, 94, 61, 59, 33, 39, 43, 44, 96, 126,
             97, 34, 37, 45, 47, 60, 62, 92, 124}

\* The arguments: the empty string, each character alone, ab, a b, a"b, a" b.
ArgStrings ==
    {<<c>> : c \in ArgChars}
    \cup {<<>>, <<97, 98>>, <<97, SPACE, 98>>, <<97, DQUOTE, 98>>,
          <<97, DQUOTE, SPACE, 98>>}

\* The argument lists given to create(): at most MaxArgs arguments.
ArgInputs == SeqsUpTo(ArgStrings, MaxArgs)

\* ------------------------------------------------------------------ state

VARIABLES
    platform,      \* which ProcessImpl is compiled in
    callerPc,      \* where the caller thread is
    startOutcome,  \* how on_start ended ("none" before create)
    stopCalls,     \* stop() calls made
    stopReturns,   \* stop() calls that have returned
    isRunningRet,  \* what the caller's last is_running() since the last stop() returned
    is_closing,    \* ProcessImpl::is_closing
    rd_pipe,       \* ProcessImpl::rd_pipe / pipefd[0]: "rd" or "zero" (nullptr, 0)
    child_id_,     \* ProcessImpl::child_id_ / pi.pi.hProcess: "none" (-1, nullptr) or "child"
    kill_ret,      \* on_stop's local ret of ::kill
    open,          \* the descriptors and handles open in the host process
    closeCalls,    \* close()/CloseHandle() calls made, per caller and target
    childState,    \* "none", "running", "exited" (not reaped), "reaped"
    killPending,   \* a kill/TerminateProcess was issued to the running child
    exitCode,      \* the exit code of the exited child (Windows)
    pipe,          \* the bytes in the pipe
    stream,        \* all the bytes the child has written into the pipe
    hostErr,       \* how many bytes the child has written to the host's stderr
    childFds,      \* what the child's standard output and standard error refer to
    p_path,        \* the executable path given to create()
    p_arguments,   \* the arguments given to create()
    command,       \* the command line on_start has built (Windows)
    pumpPc,        \* where the pump thread is
    latched,       \* the file the pump's read in progress reads from
    reads,         \* read calls of the pump that have returned data
    spawned,       \* child processes on_start has created
    threads,       \* pump threads on_start has started
    rdres,         \* the result of the pump's last read
    rd_line,       \* ProcessImpl::rd_line
    kills,         \* ::kill / TerminateProcess calls made
    joins,         \* thread.wait_to_finish() calls made
    log            \* the entries logged, in order

vars == <<platform, callerPc, startOutcome, stopCalls, stopReturns, isRunningRet, is_closing,
          rd_pipe, child_id_, kill_ret, open, closeCalls, childState,
          killPending, exitCode, pipe, stream, hostErr, childFds, p_path,
          p_arguments, command, spawned, threads, pumpPc, latched, rdres, reads,
          rd_line, kills, joins,
          log>>

fixedVars == <<platform, startOutcome, childFds, p_path, p_arguments, command,
               spawned, threads>>
callerVars == <<callerPc, stopCalls, stopReturns, isRunningRet, kill_ret, kills, joins>>
pumpVars == <<pumpPc, latched, rdres, reads, rd_line>>
childVars == <<childState, killPending, exitCode, pipe, stream, hostErr>>

\* The child's descriptors before a child exists.
NoChild == [out |-> "none", err |-> "none"]

CloseKeys == {<<"start", "rd">>, <<"start", "wr">>, <<"stop", "rd">>,
              <<"stop", "zero">>, <<"stop", "hProcess">>, <<"stop", "hThread">>,
              <<"pump", "rd">>, <<"pump", "zero">>}

\* A close()/CloseHandle() call by `who' on the value `val' of a descriptor
\* variable: "rd", "wr", "hProcess", "hThread", or "zero" (descriptor 0).
Target(val) == IF val = "zero" THEN "stdin" ELSE val
CloseBy(who, val) ==
    /\ open' = open \ {Target(val)}
    /\ closeCalls' = [closeCalls EXCEPT ![<<who, val>>] = @ + 1]

Init ==
    /\ platform \in Platforms
    /\ callerPc = "new"
    /\ startOutcome = "none"
    /\ stopCalls = 0
    /\ stopReturns = 0
    /\ isRunningRet = "none"
    /\ is_closing = FALSE
    /\ rd_pipe = "zero"
    /\ child_id_ = "none"
    /\ kill_ret = 0
    /\ open = {"stdin"}
    /\ closeCalls = [k \in CloseKeys |-> 0]
    /\ childState = "none"
    /\ killPending = FALSE
    /\ exitCode = 0
    /\ pipe = <<>>
    /\ stream = <<>>
    /\ hostErr = 0
    /\ childFds = NoChild
    /\ p_path = <<97>>
    /\ p_arguments = <<>>
    /\ command = <<>>
    /\ pumpPc = "none"
    /\ latched = "none"
    /\ rdres = "none"
    /\ reads = 0
    /\ spawned = 0
    /\ threads = 0
    /\ rd_line = <<>>
    /\ kills = 0
    /\ joins = 0
    /\ log = <<>>

\* ----------------------------------------------------------------- create

\* The ways on_start ends: pipe creation fails; (Windows) SetHandleInformation
\* fails; CreateProcessW / fork fails; the child is spawned.
StartOutcomes == {"pipe_fail", "inherit_fail", "spawn_fail", "ok"}

\* ProcessImpl::on_start (Windows).
on_start_win(outcome) ==
    /\ outcome \in StartOutcomes
    /\ command' = CommandLine(p_path, p_arguments)
    \* pi.si.hStdOutput = pipe[1]; pi.si.hStdError = pipe[1];
    /\ childFds' = IF outcome = "ok" THEN [out |-> "wr", err |-> "wr"] ELSE NoChild
    \* CreateProcessW succeeded; thread.start(&_thread_run, this).
    /\ spawned' = IF outcome = "ok" THEN spawned + 1 ELSE spawned
    /\ threads' = IF outcome = "ok" THEN threads + 1 ELSE threads
    /\ UNCHANGED <<kill_ret, killPending, exitCode, pipe, stream, hostErr, latched, rdres, reads,
                   rd_line, is_closing>>
    /\ CASE outcome = "pipe_fail" ->
              \* ERR_FAIL_COND_V(!CreatePipe(...)): nothing was created.
              UNCHANGED <<open, closeCalls, rd_pipe, child_id_, childState, pumpPc>>
         [] outcome = "inherit_fail" ->
              \* ERR_FAIL_COND_V(!SetHandleInformation(...)): returns with both
              \* ends of the pipe open.
              /\ open' = open \cup {"rd", "wr"}
              /\ UNCHANGED <<closeCalls, rd_pipe, child_id_, childState, pumpPc>>
         [] outcome = "spawn_fail" ->
              \* CloseHandle(pipe[0]); CloseHandle(pipe[1]); then the error.
              /\ open' = open
              /\ closeCalls' = [closeCalls EXCEPT ![<<"start", "rd">>] = @ + 1,
                                                  ![<<"start", "wr">>] = @ + 1]
              /\ UNCHANGED <<rd_pipe, child_id_, childState, pumpPc>>
         [] outcome = "ok" ->
              \* CloseHandle(pipe[1]); rd_pipe = pipe[0]; thread.start(...).
              /\ open' = open \cup {"rd", "hProcess", "hThread"}
              /\ closeCalls' = [closeCalls EXCEPT ![<<"start", "wr">>] = @ + 1]
              /\ rd_pipe' = "rd"
              /\ child_id_' = "child"
              /\ childState' = "running"
              /\ pumpPc' = "check"

\* ProcessImpl::on_start (POSIX).
on_start_posix(outcome) ==
    /\ outcome \in StartOutcomes \ {"inherit_fail"}
    /\ command' = command
    \* In the child: dup2(pipefd[1], STDOUT_FILENO); descriptor 2 is left as
    \* inherited from the host.
    /\ childFds' = IF outcome = "ok" THEN [out |-> "wr", err |-> "host"] ELSE NoChild
    \* fork() returned the child's pid; thread.start(&_thread_run, this).
    /\ spawned' = IF outcome = "ok" THEN spawned + 1 ELSE spawned
    /\ threads' = IF outcome = "ok" THEN threads + 1 ELSE threads
    /\ UNCHANGED <<kill_ret, killPending, exitCode, pipe, stream, hostErr, latched, rdres, reads,
                   rd_line, is_closing>>
    /\ CASE outcome = "pipe_fail" ->
              \* pipe(pipefd) == -1: return ERR_CANT_CREATE.
              UNCHANGED <<open, closeCalls, rd_pipe, child_id_, childState, pumpPc>>
         [] outcome = "spawn_fail" ->
              \* child_id_ = fork() < 0: return ERR_CANT_FORK, with both ends
              \* of the pipe open.
              /\ open' = open \cup {"rd", "wr"}
              /\ rd_pipe' = "rd"
              /\ child_id_' = "none"
              /\ UNCHANGED <<closeCalls, childState, pumpPc>>
         [] outcome = "ok" ->
              \* close(pipefd[1]); thread.start(...).
              /\ open' = open \cup {"rd"}
              /\ closeCalls' = [closeCalls EXCEPT ![<<"start", "wr">>] = @ + 1]
              /\ rd_pipe' = "rd"
              /\ child_id_' = "child"
              /\ childState' = "running"
              /\ pumpPc' = "check"

\* Create with a start() that runs again on a handle already started.
Create_restart ==
    /\ callerPc \in {"new", "idle"}
    /\ callerPc' = "idle"
    /\ \E outcome \in StartOutcomes :
          /\ startOutcome' = outcome
          /\ IF platform = "win" THEN on_start_win(outcome) ELSE on_start_posix(outcome)
    /\ UNCHANGED <<platform, p_path, p_arguments, stopCalls, stopReturns,
                   isRunningRet, kills, joins, log>>

\* Process::create: make_shared<ProcessImpl>(), start(), return the handle.
Create ==
    /\ callerPc = "new"
    /\ callerPc' = "idle"
    /\ \E outcome \in StartOutcomes :
          /\ startOutcome' = outcome
          /\ IF platform = "win" THEN on_start_win(outcome) ELSE on_start_posix(outcome)
    /\ UNCHANGED <<platform, p_path, p_arguments, stopCalls, stopReturns,
                   isRunningRet, kills, joins, log>>

\* ------------------------------------------------------------ is_running

\* What GetExitCodeProcess stores in dw_exit_code.
ExitCodeOfProcess == IF childState = "running" THEN STILL_ACTIVE ELSE exitCode

\* What ::waitpid(child_id_, &status, WNOHANG) returns: 0 for a child that has
\* not changed state, its pid for one that has exited and is reaped by this
\* call, -1 (ECHILD) for one already reaped.
WaitpidNoHang ==
    IF childState = "running" THEN 0
    ELSE IF childState = "exited" THEN 1
    ELSE -1

\* _is_running without the is_closing test.
is_running_noflag ==
    IF child_id_ = "none"
    THEN FALSE
    ELSE IF platform = "win"
         THEN ExitCodeOfProcess = STILL_ACTIVE
         ELSE WaitpidNoHang = 0

\* ProcessImpl::_is_running: the value returned.
is_running ==
    IF is_closing \/ child_id_ = "none"
    THEN FALSE
    ELSE IF platform = "win"
         THEN ExitCodeOfProcess = STILL_ACTIVE
         ELSE WaitpidNoHang = 0

\* ProcessImpl::_is_running: its effect, the reaping done by waitpid (POSIX).
Polled ==
    IF platform = "posix" /\ ~is_closing /\ child_id_ # "none" /\ childState = "exited"
    THEN "reaped"
    ELSE childState

BoolStr(b) == IF b THEN "true" ELSE "false"

\* Process::is_running, called by the caller.
IsRunning ==
    /\ callerPc = "idle"
    /\ isRunningRet' = BoolStr(is_running)
    /\ childState' = Polled
    /\ UNCHANGED <<fixedVars, callerPc, stopCalls, stopReturns, is_closing, rd_pipe,
                   child_id_, kill_ret, open, closeCalls, killPending, exitCode,
                   pipe, stream, hostErr, pumpVars, kills, joins, log>>

\* ------------------------------------------------------------------- stop

\* Process::stop without its guard: on_stop() is entered whatever is_running()
\* returns.
Stop_unguarded ==
    /\ callerPc = "idle"
    /\ stopCalls < MaxStops
    /\ stopCalls' = stopCalls + 1
    /\ isRunningRet' = "none"
    /\ callerPc' = "set_closing"
    /\ UNCHANGED <<fixedVars, stopReturns, is_closing, rd_pipe, child_id_,
                   kill_ret, open, closeCalls, childVars, pumpVars, kills,
                   joins, log>>

\* Process::stop: if (!is_running()) return; otherwise on_stop() is entered.
Stop ==
    /\ callerPc = "idle"
    /\ stopCalls < MaxStops
    /\ stopCalls' = stopCalls + 1
    /\ isRunningRet' = "none"
    /\ childState' = Polled
    /\ IF is_running
       THEN callerPc' = "set_closing" /\ UNCHANGED stopReturns
       ELSE callerPc' = "idle" /\ stopReturns' = stopReturns + 1
    /\ UNCHANGED <<fixedVars, is_closing, rd_pipe, child_id_, kill_ret, open,
                   closeCalls, killPending, exitCode, pipe, stream, hostErr, pumpVars,
                   kills, joins, log>>

\* on_stop: is_closing = true.
OnStopSetClosing ==
    /\ callerPc = "set_closing"
    /\ is_closing' = TRUE
    /\ callerPc' = "log_terminating"
    /\ UNCHANGED <<fixedVars, stopCalls, stopReturns, isRunningRet, rd_pipe,
                   child_id_, kill_ret, open, closeCalls, childVars, pumpVars,
                   kills, joins, log>>

\* on_stop: the "terminating..." entry.
OnStopLogTerminating ==
    /\ callerPc = "log_terminating"
    /\ log' = Append(log, Entry("terminating", <<>>))
    /\ callerPc' = "kill"
    /\ UNCHANGED <<fixedVars, stopCalls, stopReturns, isRunningRet, is_closing,
                   rd_pipe, child_id_, kill_ret, open, closeCalls, childVars,
                   pumpVars, kills, joins>>

\* on_stop: ::kill(child_id_, SIGKILL) / TerminateProcess(pi.pi.hProcess, 0).
\* The call returns at once; a child that runs dies later (ChildDie).  ::kill
\* returns 0 for a child that runs or has exited and is not reaped, and -1
\* (ESRCH) for a process id that was reaped.
OnStopKill ==
    /\ callerPc = "kill"
    /\ kills' = kills + 1
    /\ killPending' = (killPending \/ childState = "running")
    /\ kill_ret' = IF platform = "posix" /\ childState = "reaped" THEN -1 ELSE 0
    /\ callerPc' = IF platform = "win" THEN "close_proc" ELSE "close_pipe"
    /\ UNCHANGED <<fixedVars, stopCalls, stopReturns, isRunningRet, is_closing,
                   rd_pipe, child_id_, open, closeCalls, childState, exitCode,
                   pipe, stream, hostErr, pumpVars, joins, log>>

\* on_stop (Windows): CloseHandle(pi.pi.hProcess); CloseHandle(pi.pi.hThread).
OnStopCloseProcess ==
    /\ callerPc = "close_proc"
    /\ open' = open \ {"hProcess", "hThread"}
    /\ closeCalls' = [closeCalls EXCEPT ![<<"stop", "hProcess">>] = @ + 1,
                                        ![<<"stop", "hThread">>] = @ + 1]
    /\ callerPc' = "close_pipe"
    /\ UNCHANGED <<fixedVars, stopCalls, stopReturns, isRunningRet, is_closing,
                   rd_pipe, child_id_, kill_ret, childVars, pumpVars, kills,
                   joins, log>>

\* on_stop: close(pipefd[0]) / CloseHandle(rd_pipe).
OnStopClosePipe ==
    /\ callerPc = "close_pipe"
    /\ CloseBy("stop", rd_pipe)
    /\ callerPc' = "clear_pipe"
    /\ UNCHANGED <<fixedVars, stopCalls, stopReturns, isRunningRet, is_closing,
                   rd_pipe, child_id_, kill_ret, childVars, pumpVars, kills,
                   joins, log>>

\* on_stop: pipefd[0] = pipefd[1] = 0 / rd_pipe = nullptr.
OnStopClearPipe ==
    /\ callerPc = "clear_pipe"
    /\ rd_pipe' = "zero"
    /\ callerPc' = IF platform = "posix" /\ kill_ret = 0 THEN "wait" ELSE "join"
    /\ UNCHANGED <<fixedVars, stopCalls, stopReturns, isRunningRet, is_closing,
                   child_id_, kill_ret, open, closeCalls, childVars, pumpVars,
                   kills, joins, log>>

\* on_stop (POSIX): if (!ret) ::waitpid(child_id_, &st, 0).  The call blocks
\* while the child runs, reaps a child that has exited, and returns -1 at once
\* for a child the pump has reaped.
OnStopWait ==
    /\ callerPc = "wait"
    /\ childState \in {"exited", "reaped"}
    /\ childState' = "reaped"
    /\ callerPc' = "join"
    /\ UNCHANGED <<fixedVars, stopCalls, stopReturns, isRunningRet, is_closing,
                   rd_pipe, child_id_, kill_ret, open, closeCalls, killPending,
                   exitCode, pipe, stream, hostErr, pumpVars, kills, joins, log>>

\* on_stop: thread.wait_to_finish() returns once the pump thread has ended;
\* then the "terminated" entry, and stop() returns.
OnStopJoin ==
    /\ callerPc = "join"
    /\ pumpPc = "done"
    /\ joins' = joins + 1
    /\ log' = Append(log, Entry("terminated", <<>>))
    /\ stopReturns' = stopReturns + 1
    /\ callerPc' = "idle"
    /\ UNCHANGED <<fixedVars, stopCalls, isRunningRet, is_closing, rd_pipe,
                   child_id_, kill_ret, open, closeCalls, childVars, pumpVars,
                   kills>>

OnStop ==
    \/ OnStopSetClosing
    \/ OnStopLogTerminating
    \/ OnStopKill
    \/ OnStopCloseProcess
    \/ OnStopClosePipe
    \/ OnStopClearPipe
    \/ OnStopWait
    \/ OnStopJoin

\* ------------------------------------------------------------------ child

\* The child writes one byte to its standard output or its standard error;
\* the byte goes where that descriptor refers to.
ChildWrite ==
    /\ childState = "running"
    /\ Len(stream) + hostErr < MaxOut
    /\ \E fd \in {"out", "err"}, b \in Bytes :
          IF childFds[fd] = "wr"
          THEN /\ pipe' = Append(pipe, b)
               /\ stream' = Append(stream, b)
               /\ hostErr' = hostErr
          ELSE /\ hostErr' = hostErr + 1
               /\ UNCHANGED <<pipe, stream>>
    /\ UNCHANGED <<fixedVars, callerVars, is_closing, rd_pipe, child_id_, open,
                   closeCalls, childState, killPending, exitCode, pumpVars, log>>

\* The child exits of its own accord (an execvp that fails ends the same way:
\* the child raises SIGKILL on itself).
ChildExit ==
    /\ childState = "running"
    /\ ~killPending
    /\ childState' = "exited"
    /\ \E code \in ExitCodes :
          exitCode' = IF platform = "win" THEN code ELSE 0
    /\ UNCHANGED <<fixedVars, callerVars, is_closing, rd_pipe, child_id_, open,
                   closeCalls, killPending, pipe, stream, hostErr, pumpVars, log>>

\* The child dies of the SIGKILL / TerminateProcess issued by on_stop.
ChildDie ==
    /\ childState = "running"
    /\ killPending
    /\ childState' = "exited"
    /\ exitCode' = TERMINATE_CODE
    /\ UNCHANGED <<fixedVars, callerVars, is_closing, rd_pipe, child_id_, open,
                   closeCalls, killPending, pipe, stream, hostErr, pumpVars, log>>

\* ------------------------------------------------------------------- pump

\* Where the pump goes when its loop has ended: POSIX closes the descriptor
\* and reaps the child first, Windows logs "closed" at once.
AfterLoop == IF platform = "posix" THEN "close" ELSE "log_closed"

\* while (!impl->is_closing): the test at the head of the loop.
PumpCheck ==
    /\ pumpPc = "check"
    /\ pumpPc' = IF is_closing THEN AfterLoop ELSE "read"
    /\ UNCHANGED <<fixedVars, callerVars, is_closing, rd_pipe, child_id_, open,
                   closeCalls, childVars, latched, rdres, reads, rd_line, log>>

\* What the descriptor variable read by the pump refers to when the read is
\* issued: the pipe ("rd"), descriptor 0 ("stdin", POSIX, once on_stop has
\* zeroed pipefd[0]), or nothing that is open ("bad": a closed descriptor, a
\* closed handle, nullptr).
ReadTarget ==
    IF rd_pipe = "rd"
    THEN IF "rd" \in open THEN "rd" ELSE "bad"
    ELSE IF platform = "posix" /\ "stdin" \in open THEN "stdin" ELSE "bad"

\* read(impl->pipefd[0], ...) / ReadFile(impl->rd_pipe, ...) is issued.  On an
\* open file the call is now in progress on that file, whatever happens to the
\* descriptor afterwards.  On a descriptor that is not open it fails at once:
\* POSIX logs the error (errno is EBADF, not EINTR) and leaves the loop,
\* Windows leaves the loop.
PumpReadIssue ==
    /\ pumpPc = "read"
    /\ IF ReadTarget = "bad"
       THEN /\ pumpPc' = AfterLoop
            /\ rdres' = "err"
            /\ log' = IF platform = "posix"
                      THEN Append(log, Entry("error", <<>>))
                      ELSE log
            /\ UNCHANGED latched
       ELSE /\ pumpPc' = "in_read"
            /\ latched' = ReadTarget
            /\ UNCHANGED <<rdres, log>>
    /\ UNCHANGED <<fixedVars, callerVars, is_closing, rd_pipe, child_id_, open,
                   closeCalls, childVars, reads, rd_line>>

\* PumpReadData with a line buffer that starts empty at every read.
PumpReadData_fresh_line ==
    /\ pumpPc = "in_read"
    /\ latched = "rd"
    /\ pipe # <<>>
    /\ \E n \in 1..Min(Len(pipe), CHUNK) :
          LET r == ProcessChunk(platform, SubSeq(pipe, 1, n), <<>>) IN
          /\ pipe' = SubSeq(pipe, n + 1, Len(pipe))
          /\ rd_line' = r[1]
          /\ log' = log \o r[2]
    /\ rdres' = "data"
    /\ reads' = reads + 1
    /\ latched' = "none"
    /\ pumpPc' = IF platform = "posix" THEN "read" ELSE "check"
    /\ UNCHANGED <<fixedVars, callerVars, is_closing, rd_pipe, child_id_, open,
                   closeCalls, childState, killPending, exitCode, stream, hostErr>>

\* The read returns n > 0 bytes of the pipe; the for loop consumes the chunk.
\* POSIX reads again (the inner while), Windows goes back to the loop head.
PumpReadData ==
    /\ pumpPc = "in_read"
    /\ latched = "rd"
    /\ pipe # <<>>
    /\ \E n \in 1..Min(Len(pipe), CHUNK) :
          LET r == ProcessChunk(platform, SubSeq(pipe, 1, n), rd_line) IN
          /\ pipe' = SubSeq(pipe, n + 1, Len(pipe))
          /\ rd_line' = r[1]
          /\ log' = log \o r[2]
    /\ rdres' = "data"
    /\ reads' = reads + 1
    /\ latched' = "none"
    /\ pumpPc' = IF platform = "posix" THEN "read" ELSE "check"
    /\ UNCHANGED <<fixedVars, callerVars, is_closing, rd_pipe, child_id_, open,
                   closeCalls, childState, killPending, exitCode, stream, hostErr>>

\* The pipe is empty and its write end is closed (the child is gone).  POSIX:
\* read returns 0, the inner while ends, bytes_read < 0 is false, back to the
\* loop head.  Windows: ReadFile fails, break.
PumpReadEof ==
    /\ pumpPc = "in_read"
    /\ latched = "rd"
    /\ pipe = <<>>
    /\ childState # "running"
    /\ rdres' = "eof"
    /\ latched' = "none"
    /\ pumpPc' = IF platform = "posix" THEN "check" ELSE "log_closed"
    /\ UNCHANGED <<fixedVars, callerVars, is_closing, rd_pipe, child_id_, open,
                   closeCalls, childVars, reads, rd_line, log>>

\* POSIX: a signal interrupts the read; it returns -1 with errno == EINTR, which
\* is not logged and does not leave the loop.
PumpReadIntr ==
    /\ pumpPc = "in_read"
    /\ platform = "posix"
    /\ rdres' = "eintr"
    /\ latched' = "none"
    /\ pumpPc' = "check"
    /\ UNCHANGED <<fixedVars, callerVars, is_closing, rd_pipe, child_id_, open,
                   closeCalls, childVars, reads, rd_line, log>>

\* POSIX: a read issued on descriptor 0 returns when the host's standard input
\* has something to deliver: here, its end (0 bytes).  Until then it blocks.
PumpReadStdin ==
    /\ pumpPc = "in_read"
    /\ latched = "stdin"
    /\ rdres' = "eof"
    /\ latched' = "none"
    /\ pumpPc' = "check"
    /\ UNCHANGED <<fixedVars, callerVars, is_closing, rd_pipe, child_id_, open,
                   closeCalls, childVars, reads, rd_line, log>>

\* POSIX: close(impl->pipefd[0]) after the loop.
PumpClose ==
    /\ pumpPc = "close"
    /\ CloseBy("pump", rd_pipe)
    /\ pumpPc' = "wait"
    /\ UNCHANGED <<fixedVars, callerVars, is_closing, rd_pipe, child_id_,
                   childVars, latched, rdres, reads, rd_line, log>>

\* POSIX: waitpid(impl->child_id_, &status, 0): blocks while the child runs,
\* reaps a child that has exited, returns -1 at once for one already reaped.
PumpWait ==
    /\ pumpPc = "wait"
    /\ childState \in {"exited", "reaped"}
    /\ childState' = "reaped"
    /\ pumpPc' = "log_closed"
    /\ UNCHANGED <<fixedVars, callerVars, is_closing, rd_pipe, child_id_, open,
                   closeCalls, killPending, exitCode, pipe, stream, hostErr, latched,
                   rdres, reads, rd_line, log>>

\* The "closed" entry; _thread_run returns.
PumpLogClosed ==
    /\ pumpPc = "log_closed"
    /\ log' = Append(log, Entry("closed", <<>>))
    /\ pumpPc' = "done"
    /\ UNCHANGED <<fixedVars, callerVars, is_closing, rd_pipe, child_id_, open,
                   closeCalls, childVars, latched, rdres, reads, rd_line>>

\* The steps of the pump thread that the scheduler alone decides.
PumpStep ==
    \/ PumpCheck
    \/ PumpReadIssue
    \/ PumpReadData
    \/ PumpReadEof
    \/ PumpClose
    \/ PumpWait
    \/ PumpLogClosed

\* ---------------------------------------------------------- specification

Next ==
    \/ Create
    \/ IsRunning
    \/ Stop
    \/ OnStop
    \/ ChildWrite
    \/ ChildExit
    \/ ChildDie
    \/ PumpStep
    \/ PumpReadIntr
    \/ PumpReadStdin

Spec == Init /\ [][Next]_vars

\* The scheduler runs a thread whose next step is enabled, and the OS ends a
\* child that was sent SIGKILL / TerminateProcess.  Nothing is assumed of the
\* child's own progress, of signals, or of the host's standard input.
SpecFair ==
    /\ Spec
    /\ WF_vars(OnStop)
    /\ WF_vars(PumpStep)
    /\ WF_vars(ChildDie)

\* The filter specification: create() has succeeded, the child has written
\* one of FilterInputs to the pipe and has exited, and nobody calls stop().
\* The pump reads the pipe in chunks of any sizes.
InitFilter ==
    /\ platform \in Platforms
    /\ callerPc = "idle"
    /\ startOutcome = "ok"
    /\ stopCalls = 0
    /\ stopReturns = 0
    /\ isRunningRet = "none"
    /\ is_closing = FALSE
    /\ rd_pipe = "rd"
    /\ child_id_ = "child"
    /\ kill_ret = 0
    /\ open = IF platform = "win" THEN {"stdin", "rd", "hProcess", "hThread"}
                                  ELSE {"stdin", "rd"}
    /\ closeCalls = [k \in CloseKeys |-> IF k = <<"start", "wr">> THEN 1 ELSE 0]
    /\ childState = "exited"
    /\ killPending = FALSE
    /\ exitCode = 0
    /\ stream \in FilterInputs
    /\ pipe = stream
    /\ hostErr = 0
    /\ childFds = [out |-> "wr", err |-> IF platform = "win" THEN "wr" ELSE "host"]
    /\ p_path = <<97>>
    /\ p_arguments = <<>>
    /\ command = IF platform = "win" THEN CommandLine(p_path, p_arguments) ELSE <<>>
    /\ pumpPc = "check"
    /\ latched = "none"
    /\ rdres = "none"
    /\ reads = 0
    /\ spawned = 1
    /\ threads = 1
    /\ rd_line = <<>>
    /\ kills = 0
    /\ joins = 0
    /\ log = <<>>

NextFilter ==
    \/ PumpCheck
    \/ PumpReadIssue
    \/ PumpReadData
    \/ PumpReadEof
    \/ PumpLogClosed

SpecFilter == InitFilter /\ [][NextFilter]_vars

\* The command-line specification: create() on Windows, for the executable
\* paths and argument lists of PathInputs and ArgInputs.
InitQuote ==
    /\ platform = "win"
    /\ callerPc = "new"
    /\ startOutcome = "none"
    /\ stopCalls = 0
    /\ stopReturns = 0
    /\ isRunningRet = "none"
    /\ is_closing = FALSE
    /\ rd_pipe = "zero"
    /\ child_id_ = "none"
    /\ kill_ret = 0
    /\ open = {"stdin"}
    /\ closeCalls = [k \in CloseKeys |-> 0]
    /\ childState = "none"
    /\ killPending = FALSE
    /\ exitCode = 0
    /\ pipe = <<>>
    /\ stream = <<>>
    /\ hostErr = 0
    /\ childFds = NoChild
    /\ p_path \in PathInputs
    /\ p_arguments \in ArgInputs
    /\ command = <<>>
    /\ pumpPc = "none"
    /\ latched = "none"
    /\ rdres = "none"
    /\ reads = 0
    /\ spawned = 0
    /\ threads = 0
    /\ rd_line = <<>>
    /\ kills = 0
    /\ joins = 0
    /\ log = <<>>

SpecQuote == InitQuote /\ [][Create]_vars

\* ----------------------------------------------------------------- claims

StartFailed == startOutcome \in {"pipe_fail", "inherit_fail", "spawn_fail"}

\* The entries the pump thread logs.
PumpEntries(l) == SelectSeq(l, LAMBDA e : e.k \in {"line", "closed", "error"})

\* The texts of the captured lines logged, in order.
Lines(l) ==
    LET ls == SelectSeq(l, LAMBDA e : e.k = "line")
    IN  [i \in 1..Len(ls) |-> ls[i].t]

\* The non-empty segments of s delimited by LF or CR, in order, the last one
\* included; cur is the segment being read.
RECURSIVE SegmentsFrom(_, _)
SegmentsFrom(s, cur) ==
    LET done == IF cur = <<>> THEN <<>> ELSE <<cur>> IN
    IF s = <<>> THEN done
    ELSE IF Head(s) \in {LF, CR} THEN done \o SegmentsFrom(Tail(s), <<>>)
    ELSE SegmentsFrom(Tail(s), Append(cur, Head(s)))

Segments(s) == SegmentsFrom(s, <<>>)

\* The close()/CloseHandle() calls made by on_stop.
StopCloses ==
    closeCalls[<<"stop", "rd">>] + closeCalls[<<"stop", "zero">>]
    + closeCalls[<<"stop", "hProcess">>] + closeCalls[<<"stop", "hThread">>]

\* C1: whenever stop() has returned on a handle whose start spawned a child,
\* the pump thread has ended and was joined, the pipe read end and the process
\* and thread handles are closed, and (POSIX) the child is reaped.
C1_StopReleasesAll ==
    (stopReturns > 0 /\ callerPc = "idle" /\ startOutcome = "ok") =>
        /\ pumpPc = "done"
        /\ joins >= 1
        /\ open \cap {"rd", "hProcess", "hThread"} = {}
        /\ platform = "posix" => childState = "reaped"

\* C2: stop() is idempotent.  Over all the stop() calls of a behaviour there is
\* at most one kill, one join and one close of each handle; and a stop() on a
\* handle that is not running (start failed, child exited, or stop() was
\* called before) returns at once and changes nothing (but that the query
\* is_running() made by stop() reaps an exited child on POSIX).
C2_StopIdempotent ==
    /\ [](kills <= 1 /\ joins <= 1
          /\ \A k \in CloseKeys : k[1] = "stop" => closeCalls[k] <= 1)
    /\ [][(stopCalls' = stopCalls + 1
            /\ (StartFailed \/ childState # "running" \/ stopReturns > 0))
          => /\ stopReturns' = stopReturns + 1
             /\ callerPc' = "idle"
             /\ UNCHANGED <<is_closing, rd_pipe, child_id_, open, closeCalls,
                            killPending, pumpVars, kills, joins, log>>]_vars

\* C3: once stop() has been invoked, is_running() returns false whenever the
\* caller calls it, whatever the child, the pump and the OS have done by then;
\* and is_running() returns false on a handle whose start failed.
C3_NotRunningAfterStop ==
    /\ (stopCalls > 0 /\ callerPc = "idle") => ~is_running
    /\ stopCalls > 0 => isRunningRet # "true"
    /\ StartFailed => (~is_running /\ isRunningRet # "true")

\* is_running() was called after a stop() that found the child running, and
\* returned false while the child, already sent its kill, has not ended yet.
C3_Witness ==
    /\ stopReturns > 0
    /\ is_closing
    /\ isRunningRet = "false"
    /\ childState = "running"

\* C4: once a stop() has returned, the pump logs no further entry (no captured
\* line, no "closed", no read error).
C4_NoPumpLogAfterStop ==
    [][stopReturns > 0 => Len(PumpEntries(log')) = Len(PumpEntries(log))]_vars

\* C5: a stop() that has entered on_stop eventually returns.
C5_StopTerminates == (callerPc = "set_closing") ~> (callerPc = "idle")

\* C6: with no stop() called, on a handle whose start spawned a child,
\* is_running() returns true exactly as long as the child has not exited.
C6_RunningUntilExit ==
    (callerPc = "idle" /\ stopCalls = 0 /\ startOutcome = "ok") =>
        (is_running <=> childState = "running")

\* C7: with no stop() called and no ESC in the child's output, once the child
\* is gone, the pipe is drained and the pump's read has reported the closure,
\* the captured lines logged that are not empty (C8 is about the empty ones)
\* are exactly the non-empty segments of the output delimited by LF or CR, in
\* order, the last one included.
C7_LinesAreSegments ==
    (stopCalls = 0 /\ childState \in {"exited", "reaped"} /\ pipe = <<>>
       /\ rdres = "eof" /\ (\A i \in DOMAIN stream : stream[i] # ESC))
    => SelectSeq(Lines(log), LAMBDA t : t # <<>>) = Segments(stream)

\* C8: no captured line that is logged is empty.
C8_NoEmptyLines == \A i \in DOMAIN log : log[i].k = "line" => log[i].t # <<>>

\* C9: after a create() whose launch failed the caller holds a handle on which
\* is_running() returns false, for which no pump thread exists, and on which
\* no stop() kills, joins, closes or sets the shutdown flag.
C9_SpawnFailureInert ==
    StartFailed =>
        /\ callerPc = "idle"
        /\ ~is_running
        /\ isRunningRet # "true"
        /\ pumpPc = "none"
        /\ kills = 0 /\ joins = 0 /\ StopCloses = 0
        /\ ~is_closing
        /\ stopReturns = stopCalls

\* The launch failed, a stop() has returned and a later is_running() returned
\* false.
C9_Witness == StartFailed /\ stopReturns > 0 /\ isRunningRet = "false"

\* C10: a start that failed leaves no end of the pipe open, and the handle
\* unstarted.
C10_FailedStartLeavesNoPipe ==
    StartFailed =>
        /\ open \cap {"rd", "wr"} = {}
        /\ child_id_ = "none" /\ pumpPc = "none"

\* C11: after a successful launch, on either platform, the child's standard
\* output and its standard error both refer to the write end of the one
\* pipe, so that no byte the child writes to either goes anywhere else.
C11_BothStreamsIntoPipe ==
    startOutcome = "ok" =>
        /\ childFds = [out |-> "wr", err |-> "wr"]
        /\ hostErr = 0

\* The pump has been given the whole of `stream' and has processed it.
Consumed == startOutcome = "ok" /\ pipe = <<>> /\ latched = "none"

\* What the pump has made of its input: rd_line and the lines logged.
Outcome == <<rd_line, Lines(log)>>

\* What one pass of the filter over `bytes' makes of it.
OutcomeOf(bytes) ==
    LET r == ProcessChunk(platform, bytes, <<>>) IN <<r[1], Lines(r[2])>>

\* C12: whenever the bytes delivered to the pump are text, a well-formed CSI
\* sequence and text, the pump ends with the line buffer and the lines it
\* would have for the two texts alone: the whole sequence is dropped and
\* nothing else is.
C12_CsiRemoved ==
    \A pre \in FilterText, post \in FilterText, mid \in CsiSeqs :
        (Consumed /\ stream = pre \o mid \o post) => Outcome = OutcomeOf(pre \o post)

\* C13: whenever the bytes delivered to the pump are text, a well-formed OSC
\* sequence (terminated by BEL or by ESC '\', with or without an ESC in its
\* payload) and text, the pump ends with the line buffer and the lines it
\* would have for the two texts alone.
C13_OscRemoved ==
    \A pre \in FilterText, post \in FilterText, mid \in OscSeqs :
        (Consumed /\ stream = pre \o mid \o post) => Outcome = OutcomeOf(pre \o post)

\* C16: the line buffer and the lines logged depend only on the bytes read,
\* not on how the reads cut them into chunks: they are those of one read of
\* all the bytes.
C16_ChunkIndependent ==
    Consumed => Outcome = OutcomeOf(stream)

\* Within one read: a chunk that holds text, a whole CSI or OSC sequence and
\* text is processed as the two texts alone.
OneChunkRemoved ==
    \A pre \in FilterText, post \in FilterText, mid \in CsiSeqs \cup OscSeqs :
        OutcomeOf(pre \o mid \o post) = OutcomeOf(pre \o post)

\* The characters that call for quotes: space & ( ) [ ] { } ^ = ; ! ' + , ` ~
ListedChars == {32, 38, 40, 41, 91, 93, 123, 125, 94, 61, 59, 33, 39, 43, 44, 96, 126}

\* `text' in one pair of double quotes if it holds a listed character, and
\* as it is if not; its characters are left as they are either way.
Quoted(text) ==
    IF \E i \in DOMAIN text : text[i] \in ListedChars
    THEN <<DQUOTE>> \o text \o <<DQUOTE>>
    ELSE text

\* The strings of `texts', in order, with one space between neighbours.
RECURSIVE Joined(_)
Joined(texts) ==
    IF Len(texts) = 0 THEN <<>>
    ELSE IF Len(texts) = 1 THEN texts[1]
    ELSE texts[1] \o <<SPACE>> \o Joined(Tail(texts))

QuotedArguments == [i \in DOMAIN p_arguments |-> Quoted(p_arguments[i])]

\* The path with a backslash for each slash.
Backslashed(path) ==
    [i \in DOMAIN path |-> IF path[i] = 47 THEN 92 ELSE path[i]]

\* C14, as stated: on Windows the command line is the quoted executable path
\* followed by each quoted argument, in order, separated by single spaces,
\* where a string is quoted if and only if it holds a listed character.
C14_CommandOfPath ==
    (platform = "win" /\ startOutcome # "none") =>
        command = Joined(<<Quoted(p_path)>> \o QuotedArguments)

\* C14, amended: on Windows the command line is the executable path with
\* each '/' replaced by '\', quoted, followed by each quoted argument, in
\* order, separated by single spaces, where a string is wrapped in one pair
\* of double quotes if and only if it holds a listed character and embedded
\* double quotes are not escaped.
C14_CommandOfBackslashedPath ==
    (platform = "win" /\ startOutcome # "none") =>
        command = Joined(<<Quoted(Backslashed(p_path))>> \o QuotedArguments)

\* create("a/b", ["a b", "ab"]) has built the command line a\b "a b" ab.
C14_Witness ==
    /\ platform = "win" /\ startOutcome = "ok"
    /\ p_path = <<97, 47, 98>>
    /\ p_arguments = << <<97, 32, 98>>, <<97, 98>> >>
    /\ command = <<97, 92, 98, 32, 34, 97, 32, 98, 34, 32, 97, 98>>

\* C15: once the child is gone (so that the write end of the pipe is closed)
\* with stop() not called, the pump, scheduled fairly and not interrupted by
\* signals for ever, gets to the end of _thread_run (unless stop() is called
\* meanwhile), having logged "closed" exactly once.
C15_PumpExitsOnClosure ==
    <>[](rdres # "eintr") =>
        ((startOutcome = "ok" /\ childState # "running" /\ stopCalls = 0)
            ~> (stopCalls > 0
                \/ (pumpPc = "done"
                    /\ Len(SelectSeq(log, LAMBDA e : e.k = "closed")) = 1)))

\* C17: in every interleaving of stop() and the pump, the pump does not issue
\* a read on the descriptor of the pipe's read end once that descriptor has
\* been closed.
C17_NoReadAfterClose ==
    [][~(/\ pumpPc = "read" /\ pumpPc' # "read"
         /\ rd_pipe = "rd" /\ "rd" \notin open)]_vars

\* C18: a stop() that takes effect sets the shutdown flag before it kills the
\* child, kills the child before it closes the pipe read end, closes the read
\* end before it waits for the pump thread, and releases the process and
\* thread handles only once the pump thread has exited.
C18_StopOrder ==
    /\ kills > 0 => is_closing
    /\ (closeCalls[<<"stop", "rd">>] + closeCalls[<<"stop", "zero">>] > 0) => kills > 0
    /\ (callerPc = "join" \/ joins > 0) =>
            closeCalls[<<"stop", "rd">>] + closeCalls[<<"stop", "zero">>] > 0
    /\ (closeCalls[<<"stop", "hProcess">>] + closeCalls[<<"stop", "hThread">>] > 0) =>
            pumpPc = "done"

\* The "failed to read pipe" entries logged at Error severity.
ErrorEntries == SelectSeq(log, LAMBDA e : e.k = "error")

\* The pump is inside its read loop.
InLoop == pumpPc \in {"check", "read", "in_read"}

\* C19: a read that failed for another reason than the closure of the pipe or
\* an interrupt is logged once at Error severity and ends the loop; an
\* interrupted read is not logged and the loop goes on (unless stop() ends
\* it); nothing else, the closure of the pipe included, is logged as an error.
C19_ReadErrorLogged ==
    /\ rdres = "err" => (Len(ErrorEntries) = 1 /\ ~InLoop)
    /\ rdres # "err" => Len(ErrorEntries) = 0
    /\ (rdres = "eintr" /\ pumpPc # "none" /\ ~InLoop) => is_closing

\* The non-empty segments of s that a LF or CR ends, in order; cur is the
\* segment being read.
RECURSIVE CompletedFrom(_, _)
CompletedFrom(s, cur) ==
    IF s = <<>> THEN <<>>
    ELSE IF Head(s) \in {LF, CR}
         THEN (IF cur = <<>> THEN <<>> ELSE <<cur>>) \o CompletedFrom(Tail(s), <<>>)
    ELSE CompletedFrom(Tail(s), Append(cur, Head(s)))

\* The bytes of s after its last LF or CR.
RECURSIVE Unterminated(_)
Unterminated(s) ==
    IF s = <<>> THEN <<>>
    ELSE IF s[Len(s)] \in {LF, CR} THEN <<>>
    ELSE Append(Unterminated(SubSeq(s, 1, Len(s) - 1)), s[Len(s)])

NoEsc(s) == \A i \in DOMAIN s : s[i] # ESC

\* C20: when the pump has processed text some of whose lines do not decode,
\* each completed non-empty line has been logged, as its bytes if it does not
\* decode, and the line buffer holds the bytes after the last terminator and
\* nothing of the lines before.
C20_UndecodableLineLogged ==
    (Consumed /\ NoEsc(stream)) =>
        /\ SelectSeq(Lines(log), LAMBDA t : t # <<>>) = CompletedFrom(stream, <<>>)
        /\ rd_line = Unterminated(stream)

\* After text with lines that may not decode, the line buffer holds the bytes
\* after the last terminator and nothing of the lines before.
BufferClearedAtTerminator ==
    (Consumed /\ NoEsc(stream)) => rd_line = Unterminated(stream)

\* The bytes the pump has read so far.
Delivered == SubSeq(stream, 1, Len(stream) - Len(pipe))

\* C21: for a stream without ESC, however the reads cut it into chunks, the
\* line buffer holds the bytes read since the last terminator, and the lines
\* logged are those of one pass over the bytes read: for text that decodes,
\* the completed non-empty lines, each as one line.
C21_LineBufferPersists ==
    (startOutcome = "ok" /\ NoEsc(stream)) =>
        /\ rd_line = Unterminated(Delivered)
        /\ Outcome = OutcomeOf(Delivered)
        /\ (\A i \in DOMAIN Delivered : Delivered[i] < 128) =>
               SelectSeq(Lines(log), LAMBDA t : t # <<>>) = CompletedFrom(Delivered, <<>>)

\* The line aa has arrived in three reads (a, a, line feed) and has been
\* logged as one line.
C21_Witness ==
    /\ stream = <<97, 97, LF>> /\ pipe = <<>> /\ reads = 3
    /\ Lines(log) = << <<97, 97>> >>
    /\ rd_line = <<>>

\* C22: over any sequence of create, is_running and stop calls, the handle
\* has spawned at most one child and started at most one pump thread, and a
\* pump thread exists only if on_start spawned the child.
C22_OneChildOnePump ==
    /\ spawned <= 1
    /\ threads <= 1
    /\ threads = 1 => (startOutcome = "ok" /\ spawned = 1)
    /\ pumpPc # "none" <=> threads = 1

\* One child and one pump after create, MaxStops stop() calls that have
\* returned and an is_running() call after them.
C22_Witness ==
    /\ spawned = 1 /\ threads = 1
    /\ stopReturns = MaxStops
    /\ isRunningRet = "false"

\* C23: in every interleaving of stop() with the child's exit and with the
\* reaping of the child by the pump and by is_running, the kill of on_stop is
\* issued only while the child of this handle has not been reaped.
C23_KillBeforeReap ==
    [][(callerPc = "kill" /\ callerPc' # "kill") => childState # "reaped"]_vars

\* C24: on POSIX, in every interleaving of stop() with the pump, no read is
\* in progress on descriptor 0, descriptor 0 has not been closed by on_stop or
\* by the pump, and each end of the pipe has been closed at most once.
C24_DescriptorDiscipline ==
    platform = "posix" =>
        /\ latched # "stdin"
        /\ closeCalls[<<"stop", "zero">>] = 0
        /\ closeCalls[<<"pump", "zero">>] = 0
        /\ closeCalls[<<"start", "rd">>] + closeCalls[<<"stop", "rd">>]
               + closeCalls[<<"pump", "rd">>] <= 1
        /\ closeCalls[<<"start", "wr">>] <= 1

\* The lifecycle entries logged, in order.
Lifecycle == SelectSeq(log, LAMBDA e : e.k \in {"terminating", "closed", "terminated"})

\* The lifecycle entries come in rounds of "terminating", "closed",
\* "terminated".
InRounds(entries) ==
    \A i \in DOMAIN entries :
        entries[i].k = <<"terminating", "closed", "terminated">>[((i - 1) % 3) + 1]

\* C25: at every step the lifecycle entries logged so far are, for each
\* stop() that found the handle running, "terminating", "closed" and
\* "terminated", once each and in that order; and a stop() that finds the
\* handle not running logs nothing.
C25_LifecycleLogOrder ==
    [][/\ InRounds(Lifecycle')
       /\ (stopCalls' # stopCalls /\ callerPc' = "idle") => log' = log]_vars

====
